---- MODULE Spec2Model ----
(***************************************************************************)
(* Model of the context/CSG core of src/paragen.py: the paragen_stack of   *)
(* ParagenStackLayer frames, the helpers boolean/material/blank/prim/      *)
(* instance, the paragen_context context manager and the paragen           *)
(* decorator, over an abstract Blender scene (bpy.data.objects,            *)
(* bpy.data.meshes, bpy.data.materials, active object, selection).         *)
(*                                                                         *)
(* Host behaviour assumed of bpy (it is not part of the repository):       *)
(*  - datablock names are unique: a name already taken gets a numeric      *)
(*    suffix (.001, .002, ...);                                            *)
(*  - bpy.ops.mesh.primitive_*_add creates a linked object at the location *)
(*    and rotation it is given, makes it active and selects it; its scale  *)
(*    argument is applied to the vertices of the new mesh, the scale of    *)
(*    the object stays (1, 1, 1);                                          *)
(*  - bpy.ops.object.delete() removes exactly the selected objects; their  *)
(*    children stay in the scene with their parent cleared;                *)
(*  - any use of a removed object raises ReferenceError;                   *)
(*  - matrix_world of an unparented object is its location/rotation/scale. *)
(***************************************************************************)
EXTENDS Integers, Sequences, FiniteSets, TLC

\* ---------------------------------------------------------------- bounds
MaxObjs == 3        \* objects a run of Spec may allocate
MaxSteps == 6       \* calls a run of Spec may make
MaxObjsX == 4       \* objects a run of SpecX may allocate
MaxStepsX == 4      \* calls a run of SpecX may make
MaxRunObjs == 4     \* objects one build of SpecIdem may allocate
MaxLog == 6         \* calls one build of SpecIdem may make

\* ------------------------------------------------------- values and names
NoObj == 0
Unset == <<>>       \* Python None of an optional argument; a value v is <<v>>

Suffixes == <<"001", "002", "003", "004", "005", "006", "007", "008", "009",
              "010", "011", "012", "013", "014", "015", "016">>

SuffixSet == {Suffixes[i] : i \in 1..Len(Suffixes)}

Origin == <<0, 0, 0>>
Ones == <<1, 1, 1>>

\* mathutils.Matrix(): the identity world matrix as location/rotation/scale
Identity == [location |-> Origin, rotation_euler |-> Origin, scale |-> Ones]

\* the defaults of the twelve transform parameters
DefaultArgs ==
    [p |-> Origin, px |-> Unset, py |-> Unset, pz |-> Unset,
     r |-> Origin, rx |-> Unset, ry |-> Unset, rz |-> Unset,
     s |-> Ones, sx |-> Unset, sy |-> Unset, sz |-> Unset]

\* vec = v; if x is not None: vec[0] = x; ... (the per-axis overrides)
Override(v, x, y, z) ==
    << IF x = Unset THEN v[1] ELSE x[1],
       IF y = Unset THEN v[2] ELSE y[1],
       IF z = Unset THEN v[3] ELSE z[1] >>

\* the location/rotation/scale the twelve parameters leave on an object
Effective(a) ==
    [location |-> Override(a.p, a.px, a.py, a.pz),
     rotation_euler |-> Override(a.r, a.rx, a.ry, a.rz),
     scale |-> Override(a.s, a.sx, a.sy, a.sz)]

\* class ParagenStackLayer
ParagenStackLayer(o) == [bpy_object |-> o, temps |-> <<>>]

Range(q) == {q[i] : i \in 1..Len(q)}

\* --------------------------------------------------------------- the host
\* A world w is the record [objects, meshes, materials, active, selected,
\* stack]: objects and meshes are sequences indexed by handle (a removed
\* object keeps its slot with alive = FALSE, as a stale Python reference).

Allocated(w) == 1..Len(w.objects)

IsAlive(w, o) == o \in Allocated(w) /\ w.objects[o].alive

AliveObjs(w) == {o \in Allocated(w) : w.objects[o].alive}

LinkedObjs(w) == {o \in Allocated(w) : w.objects[o].alive /\ w.objects[o].linked}

\* name -> object lookup, bpy.data.objects[name] / name in bpy.data.objects
ByName(w, n) == {o \in AliveObjs(w) : w.objects[o].name = n}

Children(w, o) == {c \in AliveObjs(w) : w.objects[c].parent = o}

StripSuffix(n) ==
    IF Len(n) > 1 /\ n[Len(n)] \in SuffixSet THEN SubSeq(n, 1, Len(n) - 1) ELSE n

\* the name Blender gives a datablock asked to be called n while the names
\* in used are taken
UniqueName(n, used) ==
    IF n \notin used THEN n
    ELSE LET base == StripSuffix(n)
             k == CHOOSE i \in 1..Len(Suffixes) :
                    /\ Append(base, Suffixes[i]) \notin used
                    /\ \A j \in 1..(i - 1) : Append(base, Suffixes[j]) \in used
         IN Append(base, Suffixes[k])

ObjectNames(w, except) == {w.objects[o].name : o \in AliveObjs(w) \ {except}}

Ok(w) == [w |-> w, err |-> "ok", obj |-> NoObj]

OkObj(w, o) == [w |-> w, err |-> "ok", obj |-> o]

Fail(w, e) == [w |-> w, err |-> e, obj |-> NoObj]

\* bpy.data.meshes.new(): an empty mesh (geom: the boolean operations baked
\* into it, baked: the scale its vertices were created with); returns the
\* world, the mesh is the last of w.meshes
NewMesh(w) ==
    [w EXCEPT !.meshes = Append(@, [geom |-> {}, materials |-> {},
                                    baked |-> Ones])]

\* bpy.data.objects.new(n, mesh) for the mesh just made: unlinked, default
\* transform, no parent
NewObject(w, n) ==
    [NewMesh(w) EXCEPT !.objects = Append(@,
        [name |-> UniqueName(n, ObjectNames(w, NoObj)), parent |-> NoObj,
         location |-> Origin, rotation_euler |-> Origin, scale |-> Ones,
         data |-> Len(w.meshes) + 1, alive |-> TRUE, linked |-> FALSE])]

\* bpy.context.scene.collection.objects.link(o)
Link(w, o) == [w EXCEPT !.objects[o].linked = TRUE]

SetTransform(w, o, t) ==
    [w EXCEPT !.objects[o].location = t.location,
              !.objects[o].rotation_euler = t.rotation_euler,
              !.objects[o].scale = t.scale]

Transform(w, o) ==
    [location |-> w.objects[o].location,
     rotation_euler |-> w.objects[o].rotation_euler,
     scale |-> w.objects[o].scale]

\* bpy.ops.object.select_all(action='DESELECT')
DeselectAll(w) == [w EXCEPT !.selected = {}]

\* bpy.ops.object.delete(): the selected objects leave the scene and
\* bpy.data.objects; references to them (parent, active) are cleared
DeleteSelected(w) ==
    LET gone == w.selected \cap LinkedObjs(w) IN
    [w EXCEPT !.objects = [o \in Allocated(w) |->
                  IF o \in gone
                  THEN [w.objects[o] EXCEPT !.alive = FALSE, !.linked = FALSE]
                  ELSE IF w.objects[o].parent \in gone
                       THEN [w.objects[o] EXCEPT !.parent = NoObj]
                       ELSE w.objects[o]],
              !.active = IF w.active \in gone THEN NoObj ELSE w.active,
              !.selected = {}]

\* the default object name of a primitive kind ('cube' -> "Cube")
KindName(kind) == IF kind = "cube" THEN <<"Cube">> ELSE <<"Cylinder">>

\* getattr(bpy.ops.mesh, f'primitive_{name}_add')(**mesh_args)
PrimitiveAdd(w, kind, t) ==
    LET o == Len(w.objects) + 1 IN
    [SetTransform(Link(NewObject(w, KindName(kind)), o), o,
                  [location |-> t.location, rotation_euler |-> t.rotation_euler,
                   scale |-> Ones])
        EXCEPT !.active = o, !.selected = {o},
               !.meshes[Len(w.meshes) + 1].baked = t.scale]

\* ------------------------------------------------------------ the helpers
\* Every helper maps a world to [w, err, obj]: the world it leaves (also
\* when it raises partway), the exception it ends in ("ok": none) and the
\* object it returns.

Top(w) == w.stack[Len(w.stack)]

\* what evaluating paragen_stack[-1].bpy_object.<attribute> raises
TopError(w) ==
    IF w.stack = <<>> THEN "IndexError"
    ELSE IF ~IsAlive(w, Top(w).bpy_object) THEN "ReferenceError"
    ELSE "ok"

\* get_name_prefix(): the top frame's object name; the '.' that joins it to
\* what follows is the boundary between two elements of a name
get_name_prefix(w) == w.objects[Top(w).bpy_object].name

\* RegisterTemp skipping the append when there is no frame
RegisterTempIfAny(w, o) ==
    IF w.stack = <<>> THEN OkObj(w, o)
    ELSE OkObj([w EXCEPT !.stack[Len(w.stack)].temps = Append(@, o)], o)

\* paragen_stack[-1].temps.append(o)
RegisterTemp(w, o) ==
    IF w.stack = <<>> THEN Fail(w, "IndexError")
    ELSE OkObj([w EXCEPT !.stack[Len(w.stack)].temps = Append(@, o)], o)

\* mesh.materials.append(material) for every material of mats
AppendMaterials(w, o, mats) ==
    [w EXCEPT !.meshes[w.objects[o].data].materials = @ \cup mats]

\* the per-axis assignments result.location[0] = px, ...
ApplyOverrides(w, o, a) ==
    SetTransform(w, o,
        [location |-> Override(w.objects[o].location, a.px, a.py, a.pz),
         rotation_euler |-> Override(w.objects[o].rotation_euler, a.rx, a.ry, a.rz),
         scale |-> Override(w.objects[o].scale, a.sx, a.sy, a.sz)])

\* AssignTransform without the assignments of p, r and s
AssignTransformKeep(w, o, a) == ApplyOverrides(w, o, a)

\* o.location = p; overrides; o.rotation_euler = r; overrides; o.scale = s; ...
AssignTransform(w, o, a) ==
    ApplyOverrides(
        SetTransform(w, o, [location |-> a.p, rotation_euler |-> a.r, scale |-> a.s]),
        o, a)

\* if material is not None: result.data.materials.append(material)
AppendMaterial(w, o, mat) ==
    IF mat = Unset THEN w ELSE AppendMaterials(w, o, {mat[1]})

\* prim from result = bpy.context.active_object on, w1 being the world the
\* primitive_add call left
primResult(w1, mat, a) ==
    RegisterTemp(
        AppendMaterial(ApplyOverrides(w1, w1.active, a), w1.active, mat),
        w1.active)

\* prim(name, material, p, ..., sz)
prim(w, kind, mat, a) ==
    primResult(
        PrimitiveAdd(w, kind,
            [location |-> a.p, rotation_euler |-> a.r, scale |-> a.s]),
        mat, a)

\* blank(name, materials)
blank(w, nm, mats) ==
    IF TopError(w) # "ok" THEN Fail(w, TopError(w))
    ELSE LET full_name == Append(get_name_prefix(w), nm)
             bpy_object == Len(w.objects) + 1
             r == RegisterTemp(Link(NewObject(w, full_name), bpy_object),
                               bpy_object)
         IN OkObj(AppendMaterials(r.w, bpy_object, mats), bpy_object)

MaterialNames(w) == {m.name : m \in w.materials}

\* bpy.data.materials.remove(bpy.data.materials[n]): the material leaves
\* the registry and every material slot that held it
RemoveMaterial(w, n) ==
    [w EXCEPT !.materials = {m \in @ : m.name # n},
              !.meshes = [i \in 1..Len(w.meshes) |->
                  [w.meshes[i] EXCEPT !.materials = @ \ {n}]]]

\* RemoveStale removing nothing
RemoveStaleNever(w, full_name) == w

\* the removal of a material that already has the full name
RemoveStale(w, full_name) ==
    IF full_name \in MaterialNames(w) THEN RemoveMaterial(w, full_name) ELSE w

\* material from bpy.data.materials.new(full_name) on, w1 being the world
\* the removal left
materialNew(w1, full_name, base_color, metallic) ==
    LET name == UniqueName(full_name, MaterialNames(w1)) IN
    Ok(AppendMaterials(
          [w1 EXCEPT !.materials = @ \cup
              {[name |-> name, base_color |-> base_color,
                metallic |-> metallic]}],
          Top(w1).bpy_object, {name}))

\* material(name, base_color, metallic)
material(w, nm, base_color, metallic) ==
    IF ~(0 <= metallic /\ metallic <= 1) THEN Fail(w, "AssertionError")
    ELSE IF TopError(w) # "ok" THEN Fail(w, TopError(w))
    ELSE materialNew(RemoveStale(w, Append(get_name_prefix(w), nm)),
                     Append(get_name_prefix(w), nm), base_color, metallic)

\* an operand given as a primitive kind (a str) or as an existing object
StrOperand(kind, mat) ==
    [isstr |-> TRUE, kind |-> kind, material |-> mat, obj |-> NoObj]

ObjOperand(o) == [isstr |-> FALSE, kind |-> "", material |-> Unset, obj |-> o]

\* if isinstance(mesh, str): mesh = prim(mesh, **mesh_args)
Resolve(w, operand) ==
    IF operand.isstr THEN prim(w, operand.kind, operand.material, DefaultArgs)
    ELSE OkObj(w, operand.obj)

\* objects (removed ones excluded) that use the mesh of o
MeshUsers(w, o) == {u \in AliveObjs(w) : w.objects[u].data = w.objects[o].data}

\* BooleanTarget of a boolean that leaves the host-active object as it is
BooleanTargetActive(w) == w.active

\* the object that is made host-active before the modifier is baked
BooleanTarget(w) == Top(w).bpy_object

\* modifiers.new + bpy.ops.object.modifier_apply on the active object
ApplyBoolean(w, operation, mesh) ==
    [w EXCEPT !.meshes[w.objects[w.active].data].geom =
                  @ \cup {[operation |-> operation, operand |-> mesh]}]

\* boolean from view_layer.objects.active = ... on, w1 being the world the
\* assignments of the operand's transform left
booleanApply(w1, operation, mesh) ==
    IF TopError(w1) # "ok" THEN Fail(w1, TopError(w1))
    ELSE IF Cardinality(MeshUsers(w1, BooleanTarget(w1))) > 1
         THEN Fail([w1 EXCEPT !.active = BooleanTarget(w1)], "RuntimeError")
         ELSE Ok(DeselectAll(
                 ApplyBoolean([w1 EXCEPT !.active = BooleanTarget(w1)],
                              operation, mesh)))

\* boolean from mesh.location = p on, r0 being what the first line left
booleanMesh(r0, operation, a) ==
    IF r0.err # "ok" THEN r0
    ELSE IF ~IsAlive(r0.w, r0.obj) THEN Fail(r0.w, "ReferenceError")
    ELSE booleanApply(AssignTransform(r0.w, r0.obj, a), operation, r0.obj)

\* boolean(operation, mesh, p, ..., sz); returns None
boolean(w, operation, operand, a) ==
    booleanMesh(Resolve(w, operand), operation, a)

\* bpy_object.copy(): a new unlinked object sharing the source's mesh
CopyObject(w, src) ==
    [w EXCEPT !.objects = Append(@,
        [w.objects[src] EXCEPT
            !.name = UniqueName(w.objects[src].name, ObjectNames(w, NoObj)),
            !.linked = FALSE])]

\* InstanceTarget naming and placing the source instead of its copy
InstanceTargetSource(result, bpy_object) == bpy_object

\* the object that receives the name and the transform of an instance call
InstanceTarget(result, bpy_object) == result

\* Rename giving the name as asked even when it is taken
RenameExact(w, o, n) == [w EXCEPT !.objects[o].name = n]

\* result.name = n
Rename(w, o, n) ==
    [w EXCEPT !.objects[o].name = UniqueName(n, ObjectNames(w, o))]

\* instance from result.parent = ... on, w1 being the world the copy left
\* and result the copy
instanceResult(w1, result, bpy_object, nm, a) ==
    IF TopError(w1) # "ok" THEN Fail(w1, TopError(w1))
    ELSE Ok(AssignTransform(
               Rename(Link([w1 EXCEPT !.objects[result].parent =
                                          Top(w1).bpy_object],
                           result),
                      InstanceTarget(result, bpy_object),
                      Append(get_name_prefix(w1), nm)),
               InstanceTarget(result, bpy_object), a))

\* instance from result = bpy_object.copy() on, r0 being what the first
\* line left
instanceCopy(r0, nm, a) ==
    IF r0.err # "ok" THEN r0
    ELSE IF ~IsAlive(r0.w, r0.obj) THEN Fail(r0.w, "ReferenceError")
    ELSE instanceResult(CopyObject(r0.w, r0.obj), Len(r0.w.objects) + 1,
                        r0.obj, nm, a)

\* instance(name, bpy_object, p, ..., sz); returns None
instance(w, nm, operand, a) == instanceCopy(Resolve(w, operand), nm, a)

\* --------------------------------------- paragen_context and the decorator
\* the first temporary of the top frame that has been removed (0: none)
FirstRemoved(w, temps) ==
    IF \A i \in 1..Len(temps) : IsAlive(w, temps[i]) THEN 0
    ELSE CHOOSE i \in 1..Len(temps) :
            /\ ~IsAlive(w, temps[i])
            /\ \A k \in 1..(i - 1) : IsAlive(w, temps[k])

\* paragen_context up to its yield: push, deselect, save matrix_world, reset
\* it; returns the saved matrix as matrix_world
ContextEnter(w, bpy_object) ==
    LET w1 == DeselectAll([w EXCEPT !.stack = Append(@, ParagenStackLayer(bpy_object))])
    IN IF ~IsAlive(w1, bpy_object)
       THEN [w |-> w1, err |-> "ReferenceError", obj |-> NoObj, matrix_world |-> Identity]
       ELSE [w |-> SetTransform(w1, bpy_object, Identity), err |-> "ok",
             obj |-> bpy_object, matrix_world |-> Transform(w1, bpy_object)]

\* ExitSelection missing the first temporary
ExitSelectionRest(w) == {Top(w).temps[i] : i \in 2..Len(Top(w).temps)}

\* the objects the exit part selects for deletion
ExitSelection(w) == Range(Top(w).temps)

\* the frames left when the exit part has run
PopFrame(stack) == SubSeq(stack, 1, Len(stack) - 1)

\* paragen_context from bpy_object.matrix_world = matrix_world on, w1 being
\* the world the deletion left
ContextRestore(w1, bpy_object, matrix_world) ==
    IF ~IsAlive(w1, bpy_object) THEN Fail(w1, "ReferenceError")
    ELSE OkObj([SetTransform(w1, bpy_object, matrix_world)
                   EXCEPT !.stack = PopFrame(@)], bpy_object)

\* paragen_context after its yield: delete the top frame's temporaries,
\* restore matrix_world, pop
ContextExit(w, bpy_object, matrix_world) ==
    LET w0 == DeselectAll(w) IN
    IF w0.stack = <<>> THEN Fail(w0, "IndexError")
    ELSE LET temps == Top(w0).temps
             bad == FirstRemoved(w0, temps)
         IN IF bad # 0
            THEN Fail([w0 EXCEPT !.selected = {temps[i] : i \in 1..(bad - 1)}],
                      "ReferenceError")
            ELSE ContextRestore(
                     DeleteSelected([w0 EXCEPT !.selected = ExitSelection(w0)]),
                     bpy_object, matrix_world)

\* OldObjects of a decorator without the rebuild step
OldObjectsNone(w, nm) == {}

\* what the rebuild step of the decorator selects: the object of that name
\* and its children
OldObjects(w, nm) == ByName(w, nm) \cup UNION {Children(w, o) : o \in ByName(w, nm)}

\* RootParent parenting the new root under the current frame's object
RootParentTop(w) == IF w.stack = <<>> THEN NoObj ELSE Top(w).bpy_object

\* the parent the decorator leaves on the object it creates
RootParent(w) == NoObj

\* decorated_function up to the call of func: remove the old object and its
\* children, create the root, apply the transform, enter paragen_context
BuilderEnter(w, nm, a) ==
    LET w0 == DeselectAll(w)
        old == OldObjects(w0, nm)
        result == Len(w.objects) + 1
    IN IF \E o \in old : ~w0.objects[o].linked
       THEN [w |-> w0, err |-> "RuntimeError", obj |-> NoObj, matrix_world |-> Identity]
       ELSE ContextEnter(
               [AssignTransform(
                    Link(NewObject(
                            IF ByName(w0, nm) # {}
                            THEN DeleteSelected([w0 EXCEPT !.selected = old])
                            ELSE w0,
                            nm),
                         result),
                    result, a)
                   EXCEPT !.active = result,
                          !.objects[result].parent = RootParent(w)],
               result)

\* left_door.parent = paragen_stack[-1].bpy_object (gate, pinwheel_windmill)
set_parent(w, o) ==
    IF ~IsAlive(w, o) THEN Fail(w, "ReferenceError")
    ELSE IF TopError(w) # "ok" THEN Fail(w, TopError(w))
    ELSE OkObj([w EXCEPT !.objects[o].parent = Top(w).bpy_object], o)

\* ------------------------------------------------------------------ state
VARIABLES
    objects,        \* bpy.data.objects, by handle
    meshes,         \* bpy.data.meshes, by handle
    materials,      \* bpy.data.materials
    active,         \* bpy.context.view_layer.objects.active
    selected,       \* the selected objects
    paragen_stack,  \* the module's list of ParagenStackLayer
    ctl,            \* the builder calls and with-blocks in progress, outermost first
    ret,            \* what the last call did
    steps,          \* the number of calls made so far
    log,            \* SpecIdem: the calls of the first build, to be repeated
    phase,          \* SpecIdem: "first", "replay", "done"; "script" otherwise
    snap,           \* SpecIdem: the scene after the first build (view), the
                    \* objects allocated by then (base), whether its rebuild
                    \* steps found nothing to remove (clean)
    given           \* SpecX: the transform arguments the run's calls use

scene == <<objects, meshes, materials, active, selected, paragen_stack>>
harness == <<log, phase, snap, given>>
vars == <<objects, meshes, materials, active, selected, paragen_stack, ctl, ret,
          steps, log, phase, snap, given>>

World ==
    [objects |-> objects, meshes |-> meshes, materials |-> materials,
     active |-> active, selected |-> selected, stack |-> paragen_stack]

Commit(w) ==
    /\ objects' = w.objects
    /\ meshes' = w.meshes
    /\ materials' = w.materials
    /\ active' = w.active
    /\ selected' = w.selected
    /\ paragen_stack' = w.stack

\* paragen_stack[-1] (a frame of no object when there is none)
TopFrame ==
    IF paragen_stack = <<>> THEN ParagenStackLayer(NoObj)
    ELSE paragen_stack[Len(paragen_stack)]

\* the record of a call: its name, how it ended, the object it returned
\* (obj) or was given (arg), the stack length (before) and the top frame
\* (outer) when it started, the temporaries of the frame it pushed (own) and
\* of the frames popped while it ran (popped), the objects removed by the
\* rebuild steps made while it ran (removed), the stack lengths at the
\* start of the builder calls that ended with it (ended), the transform
\* arguments of the call (args), and of a material call the name, the
\* values and the materials that had its full name before it (prior), and
\* of a boolean call the transform its operand had before it (was)
Ev(op, status, obj) ==
    [op |-> op, status |-> status, obj |-> obj, nested |-> FALSE,
     before |-> Len(paragen_stack), outer |-> ParagenStackLayer(NoObj),
     arg |-> NoObj, own |-> {}, popped |-> {}, removed |-> {}, ended |-> {},
     args |-> DefaultArgs, nm |-> <<>>, base_color |-> 0, metallic |-> 0,
     prior |-> {}, was |-> Identity]

\* an exception leaves every call above level j without running the rest of
\* it: paragen_context has no try/finally around its yield
Unwind(j) == SubSeq(ctl, 1, j)

\* the stack lengths at the start of the builder calls an exception ends
Ended(j) == {ctl[i].before : i \in {k \in (j + 1)..Len(ctl) : ctl[k].kind = "paragen"}}

\* a helper call made by the running routine (or by the scene script)
Finish(op, r, arg, a, j) ==
    /\ Commit(r.w)
    /\ ctl' = IF r.err = "ok" THEN ctl ELSE Unwind(j)
    /\ ret' = [Ev(op, r.err, r.obj) EXCEPT
                  !.arg = arg,
                  !.args = a,
                  !.ended = IF r.err = "ok" THEN {} ELSE Ended(j)]

Init ==
    /\ objects = <<>>
    /\ meshes = <<>>
    /\ materials = {}
    /\ active = NoObj
    /\ selected = {}
    /\ paragen_stack = <<>>
    /\ ctl = <<>>
    /\ ret = Ev("start", "ok", NoObj)
    /\ steps = 0
    /\ log = <<>>
    /\ phase = "script"
    /\ snap = {}
    /\ given = DefaultArgs

\* ---------------------------------------------------------------- actions
\* the record of a call in progress: the object and the saved matrix of its
\* paragen_context, and for the properties the stack length and top frame
\* when it started, the temporaries of the frames popped and the objects
\* removed by rebuild steps while it ran, its transform arguments and the
\* name a builder call was given
Call(kind, r, removed, a, nm) ==
    [kind |-> kind, bpy_object |-> r.obj, matrix_world |-> r.matrix_world,
     before |-> Len(paragen_stack), outer |-> TopFrame, popped |-> {},
     removed |-> removed, args |-> a, nm |-> nm]

\* a decorated function is called: name, transform
Paragen(nm, a, j) ==
    \E r \in {BuilderEnter(World, nm, a)}, old \in {OldObjects(World, nm)} :
       /\ Commit(r.w)
       /\ ctl' = IF r.err = "ok"
                 THEN Append([i \in 1..Len(ctl) |->
                                 [ctl[i] EXCEPT !.removed = @ \cup old]],
                             Call("paragen", r, old, a, nm))
                 ELSE Unwind(j)
       /\ ret' = [Ev("paragen", r.err, r.obj) EXCEPT
                     !.args = a,
                     !.nm = nm,
                     !.ended = IF r.err = "ok" THEN {} ELSE Ended(j)]

\* with paragen_context(o): is entered by the running routine
Enter(o, j) ==
    \E r \in {ContextEnter(World, o)} :
    /\ Commit(r.w)
    /\ ctl' = IF r.err = "ok"
              THEN Append(ctl, Call("context", r, {}, DefaultArgs, <<>>))
              ELSE Unwind(j)
    /\ ret' = [Ev("enter", r.err, r.obj) EXCEPT
                  !.arg = o,
                  !.ended = IF r.err = "ok" THEN {} ELSE Ended(j)]

\* the calls in progress once the innermost has ended normally: each one
\* that goes on has seen the temporaries of the popped frame go
AfterPop(gone) ==
    [i \in 1..(Len(ctl) - 1) |-> [ctl[i] EXCEPT !.popped = @ \cup gone]]

\* the innermost with-block or builder call ends: func has returned (or the
\* body of the with-block is through), the exit part of paragen_context
\* runs, the decorator returns its result
Leave(op, j) ==
    \E c \in {ctl[Len(ctl)]} :
    \E r \in {ContextExit(World, c.bpy_object, c.matrix_world)},
       gone \in {IF paragen_stack = <<>> THEN {} ELSE Range(TopFrame.temps)} :
       /\ Commit(r.w)
       /\ ctl' = IF r.err = "ok" THEN AfterPop(gone) ELSE Unwind(j)
       /\ ret' = [op |-> op, status |-> r.err, obj |-> c.bpy_object,
                  nested |-> Len(ctl) > 1, before |-> c.before, outer |-> c.outer,
                  arg |-> NoObj,
                  own |-> Range(paragen_stack[c.before + 1].temps),
                  popped |-> IF r.err = "ok" THEN c.popped \cup gone ELSE {},
                  removed |-> c.removed,
                  args |-> c.args, nm |-> c.nm, base_color |-> 0,
                  metallic |-> 0, prior |-> {}, was |-> Identity,
                  ended |-> IF r.err = "ok"
                            THEN (IF c.kind = "paragen" THEN {c.before} ELSE {})
                            ELSE Ended(j)]

Return(j) ==
    /\ ctl # <<>>
    /\ ctl[Len(ctl)].kind = "paragen"
    /\ j < Len(ctl)
    /\ Leave("return", j)

Exit(j) ==
    /\ ctl # <<>>
    /\ ctl[Len(ctl)].kind = "context"
    /\ j < Len(ctl)
    /\ Leave("exit", j)

Prim(kind, mat, a, j) ==
    Finish("prim", prim(World, kind, mat, a), NoObj, a, j)

Blank(nm, mats, j) ==
    Finish("blank", blank(World, nm, mats), NoObj, DefaultArgs, j)

Boolean(operation, operand, a, j) ==
    \E r \in {boolean(World, operation, operand, a)} :
       /\ Commit(r.w)
       /\ ctl' = IF r.err = "ok" THEN ctl ELSE Unwind(j)
       /\ ret' = [Ev("boolean", r.err, r.obj) EXCEPT
                     !.arg = operand.obj,
                     !.args = a,
                     !.was = IF IsAlive(World, operand.obj)
                             THEN Transform(World, operand.obj) ELSE Identity,
                     !.ended = IF r.err = "ok" THEN {} ELSE Ended(j)]

\* the materials that have the full name a material call is about to use
Prior(nm) ==
    IF TopError(World) # "ok" THEN {}
    ELSE {m \in materials : m.name = Append(get_name_prefix(World), nm)}

Material(nm, base_color, metallic, j) ==
    \E r \in {material(World, nm, base_color, metallic)} :
       /\ Commit(r.w)
       /\ ctl' = IF r.err = "ok" THEN ctl ELSE Unwind(j)
       /\ ret' = [Ev("material", r.err, r.obj) EXCEPT
                     !.nm = <<nm>>,
                     !.base_color = base_color,
                     !.metallic = metallic,
                     !.prior = Prior(nm),
                     !.ended = IF r.err = "ok" THEN {} ELSE Ended(j)]

Instance(nm, operand, a, j) ==
    \E r \in {instance(World, nm, operand, a)} :
       /\ Commit(r.w)
       /\ ctl' = IF r.err = "ok" THEN ctl ELSE Unwind(j)
       /\ ret' = [Ev("instance", r.err, r.obj) EXCEPT
                     !.arg = operand.obj,
                     !.args = a,
                     !.nm = <<nm>>,
                     !.ended = IF r.err = "ok" THEN {} ELSE Ended(j)]

\* the routine parents the object a nested builder call has just returned
SetParent(j) ==
    /\ ret.op = "return"
    /\ ret.status = "ok"
    /\ ret.nested
    /\ ret.obj # TopFrame.bpy_object
    /\ Finish("set_parent", set_parent(World, ret.obj), ret.obj, DefaultArgs, j)

\* the running routine raises; the exception is caught at level j (0: by
\* the scene script) and every call above is abandoned
Raise(j) ==
    /\ ctl # <<>>
    /\ j < Len(ctl)
    /\ ctl' = Unwind(j)
    /\ ret' = [Ev("raise", "Exception", NoObj) EXCEPT !.ended = Ended(j)]
    /\ UNCHANGED scene

\* ------------------------------------------------- the inputs of the calls
Kinds == {"cube"}

RootNames == {<<"A">>, <<"B">>}

LocalNames == {"T"}

MaterialLocalNames == {"M"}

\* base colours (each stands for an RGBA tuple) and metallic factors; 2 is
\* outside the range material() asserts
Colors == {1, 2}

Metallics == {0, 1, 2}

Operations == {"UNION", "DIFFERENCE"}

\* the names a builder call may be given: a fixed name, or one made with
\* get_name_prefix() as pinwheel_windmill does
BuilderNames ==
    RootNames \cup
    (IF TopError(World) = "ok"
     THEN {Append(get_name_prefix(World), n) : n \in LocalNames} ELSE {})

\* the transform arguments a call is given: the defaults, or the transform
\* the run was started with
XfArgs == {DefaultArgs, given}

\* the material arguments of prim and blank in SpecX
MatArgs == {Unset} \cup {<<m>> : m \in MaterialNames(World)}

MatLists == {{}} \cup {{m} : m \in MaterialNames(World)}

\* the objects a routine may hold a reference to
Held == 1..Len(objects)

Operands == {StrOperand(k, Unset) : k \in Kinds} \cup {ObjOperand(o) : o \in Held}

\* objects the call allocates
Needs(operand) == IF operand.isstr THEN 1 ELSE 0

Levels == 0..Len(ctl)

Room(n) == Len(objects) + n <= MaxObjs

\* one more call of a run of Spec
Step == steps < MaxSteps /\ steps' = steps + 1 /\ UNCHANGED harness

Next ==
    \/ \E nm \in BuilderNames, j \in Levels :
          Step /\ Room(1) /\ Paragen(nm, DefaultArgs, j)
    \/ \E j \in Levels : Step /\ Return(j)
    \/ \E o \in Held, j \in Levels :
          /\ Step
          /\ ctl # <<>>
          /\ \E i \in 1..Len(paragen_stack) : o \in Range(paragen_stack[i].temps)
          /\ Enter(o, j)
    \/ \E j \in Levels : Step /\ Exit(j)
    \/ \E k \in Kinds, j \in Levels :
          Step /\ Room(1) /\ Prim(k, Unset, DefaultArgs, j)
    \/ \E nm \in LocalNames, j \in Levels :
          Step /\ Room(1) /\ Blank(nm, {}, j)
    \/ \E x \in Operands, j \in Levels :
          /\ Step
          /\ Room(Needs(x))
          /\ paragen_stack # <<>> => x.obj # TopFrame.bpy_object
          /\ Boolean("UNION", x, DefaultArgs, j)
    \/ \E nm \in MaterialLocalNames, j \in Levels :
          Step /\ Material(nm, 1, 0, j)
    \/ \E nm \in LocalNames, x \in Operands, j \in Levels :
          Step /\ Room(Needs(x) + 1) /\ Instance(nm, x, DefaultArgs, j)
    \/ \E j \in Levels : Step /\ SetParent(j)
    \/ \E j \in Levels : Step /\ Raise(j)

Spec == Init /\ [][Next]_vars

\* ------------------------------------------- SpecIdem: a build, repeated
\* the scene as the claims compare it: the linked objects by name with the
\* name of their parent, and the materials
View(objs, mats) ==
    [objects |-> {[name |-> objs[o].name,
                   parent |-> IF objs[o].parent = NoObj THEN <<>>
                              ELSE objs[objs[o].parent].name] :
                  o \in {x \in 1..Len(objs) : objs[x].alive /\ objs[x].linked}},
     materials |-> mats]

InitIdem ==
    /\ objects = <<>>
    /\ meshes = <<>>
    /\ materials = {}
    /\ active = NoObj
    /\ selected = {}
    /\ paragen_stack = <<>>
    /\ ctl = <<>>
    /\ ret = Ev("start", "ok", NoObj)
    /\ steps = 0
    /\ log = <<>>
    /\ phase = "first"
    /\ snap = [view |-> View(<<>>, {}), base |-> 0, clean |-> TRUE]
    /\ given = DefaultArgs

RoomIdem(n) == Len(objects) + n <= MaxRunObjs

\* a call of the first build that went through is noted for the second;
\* when the top-level call has returned the scene is kept and the second
\* build starts
Noted(op, nm, operand) ==
    /\ ret'.status = "ok"
    /\ log' = Append(log, [op |-> op, nm |-> nm, operand |-> operand])
    /\ phase' = IF ctl' = <<>> THEN "replay" ELSE "first"
    /\ snap' = IF ctl' = <<>>
               THEN [view |-> View(objects', materials'), base |-> Len(objects'),
                     clean |-> ret'.removed = {}]
               ELSE snap
    /\ UNCHANGED <<steps, given>>

First == phase = "first" /\ Len(log) < MaxLog

Inside == First /\ ctl # <<>>

\* the operand of the first build, as the second build meets it
Again(operand) ==
    IF operand.isstr THEN operand ELSE ObjOperand(operand.obj + snap.base)

\* the second build makes the calls of the first, in their order, with the
\* same arguments
Replay ==
    /\ phase = "replay"
    /\ log # <<>>
    /\ LET e == Head(log) IN
       CASE e.op = "paragen" -> Paragen(e.nm, DefaultArgs, 0)
         [] e.op = "return" -> Return(0)
         [] e.op = "prim" -> Prim("cube", Unset, DefaultArgs, 0)
         [] e.op = "blank" -> Blank(e.nm[1], {}, 0)
         [] e.op = "boolean" -> Boolean("UNION", Again(e.operand), DefaultArgs, 0)
         [] e.op = "material" -> Material(e.nm[1], 1, 0, 0)
         [] e.op = "instance" -> Instance(e.nm[1], Again(e.operand), DefaultArgs, 0)
         [] e.op = "set_parent" -> SetParent(0)
    /\ log' = Tail(log)
    /\ phase' = IF Tail(log) = <<>> THEN "done" ELSE "replay"
    /\ UNCHANGED <<steps, given, snap>>

NextIdem ==
    \/ \E nm \in BuilderNames :
          /\ First /\ RoomIdem(1)
          /\ IF ctl = <<>> THEN log = <<>> /\ nm = <<"A">> ELSE TRUE
          /\ Paragen(nm, DefaultArgs, 0)
          /\ Noted("paragen", nm, ObjOperand(NoObj))
    \/ Inside /\ Return(0) /\ Noted("return", <<>>, ObjOperand(NoObj))
    \/ /\ Inside /\ RoomIdem(1)
       /\ Prim("cube", Unset, DefaultArgs, 0)
       /\ Noted("prim", <<>>, ObjOperand(NoObj))
    \/ \E nm \in LocalNames :
          /\ Inside /\ RoomIdem(1)
          /\ Blank(nm, {}, 0)
          /\ Noted("blank", <<nm>>, ObjOperand(NoObj))
    \/ \E x \in Operands :
          /\ Inside /\ RoomIdem(Needs(x))
          /\ x.obj # TopFrame.bpy_object
          /\ Boolean("UNION", x, DefaultArgs, 0)
          /\ Noted("boolean", <<>>, x)
    \/ \E nm \in MaterialLocalNames :
          /\ Inside
          /\ Material(nm, 1, 0, 0)
          /\ Noted("material", <<nm>>, ObjOperand(NoObj))
    \/ \E nm \in LocalNames, x \in Operands :
          /\ Inside /\ RoomIdem(Needs(x) + 1)
          /\ Instance(nm, x, DefaultArgs, 0)
          /\ Noted("instance", <<nm>>, x)
    \/ Inside /\ SetParent(0) /\ Noted("set_parent", <<>>, ObjOperand(NoObj))
    \/ Replay

SpecIdem == InitIdem /\ [][NextIdem]_vars

\* ------------------------- SpecX: calls with transform and material values
\* an optional per-axis argument: given as v, or left out
Pick(on, v) == IF on THEN <<v>> ELSE Unset

\* p = (1, 2, 3), r = (4, 5, 6), s = (7, 8, 2) with the per-axis arguments of
\* the axes of ax given as well (9 for a position, 10 for a rotation, 11 for
\* a scale)
GivenOn(ax) ==
    [p |-> <<1, 2, 3>>,
     px |-> Pick("x" \in ax, 9), py |-> Pick("y" \in ax, 9),
     pz |-> Pick("z" \in ax, 9),
     r |-> <<4, 5, 6>>,
     rx |-> Pick("x" \in ax, 10), ry |-> Pick("y" \in ax, 10),
     rz |-> Pick("z" \in ax, 10),
     s |-> <<7, 8, 2>>,
     sx |-> Pick("x" \in ax, 11), sy |-> Pick("y" \in ax, 11),
     sz |-> Pick("z" \in ax, 11)]

\* the axes given per-axis arguments: each axis once with one and once
\* without
AxisSets == {{"x"}, {"y", "z"}}

InitX ==
    /\ objects = <<>>
    /\ meshes = <<>>
    /\ materials = {}
    /\ active = NoObj
    /\ selected = {}
    /\ paragen_stack = <<>>
    /\ ctl = <<>>
    /\ ret = Ev("start", "ok", NoObj)
    /\ steps = 0
    /\ log = <<>>
    /\ phase = "script"
    /\ snap = {}
    /\ given \in {GivenOn(ax) : ax \in AxisSets}

RoomX(n) == Len(objects) + n <= MaxObjsX

\* one more call of a run of SpecX
StepX == steps < MaxStepsX /\ steps' = steps + 1 /\ UNCHANGED harness

NextX ==
    \/ \E nm \in RootNames, a \in XfArgs :
          StepX /\ RoomX(1) /\ Paragen(nm, a, 0)
    \/ StepX /\ Return(0)
    \/ \E k \in Kinds, mat \in MatArgs, a \in XfArgs :
          StepX /\ RoomX(1) /\ Prim(k, mat, a, 0)
    \/ \E nm \in LocalNames, mats \in MatLists :
          StepX /\ RoomX(1) /\ Blank(nm, mats, 0)
    \/ \E operation \in Operations, x \in Operands :
          /\ StepX
          /\ RoomX(Needs(x))
          /\ paragen_stack # <<>> => x.obj # TopFrame.bpy_object
          /\ \E a \in IF x.isstr THEN {given} ELSE XfArgs :
                Boolean(operation, x, a, 0)
    \/ \E nm \in MaterialLocalNames, c \in Colors, k \in Metallics :
          StepX /\ Material(nm, c, k, 0)
    \/ \E nm \in LocalNames, x \in Operands, a \in XfArgs :
          StepX /\ RoomX(Needs(x) + 1) /\ Instance(nm, x, a, 0)

SpecX == InitX /\ [][NextX]_vars

\* ------------------------ SpecRerun: a build that fails, then is made again
\* the temporaries registered in the frames of a stack
AllTemps(stack) == UNION {Range(stack[i].temps) : i \in 1..Len(stack)}

InitRerun ==
    /\ objects = <<>>
    /\ meshes = <<>>
    /\ materials = {}
    /\ active = NoObj
    /\ selected = {}
    /\ paragen_stack = <<>>
    /\ ctl = <<>>
    /\ ret = Ev("start", "ok", NoObj)
    /\ steps = 0
    /\ log = <<>>
    /\ phase = "failing"
    /\ snap = {}
    /\ given = DefaultArgs

\* a call of the two builds may be made
Going == phase # "done" /\ steps < MaxSteps

\* the first build is over when an exception has left its routine: the
\* temporaries registered by then are kept in snap; the second is over when
\* the builder call has returned
Rerun ==
    /\ steps' = steps + 1
    /\ phase' = IF phase = "failing" /\ ctl' = <<>> THEN "rerun"
                ELSE IF phase = "rerun" /\ ret'.op = "return" /\ ret'.status = "ok"
                     THEN "done"
                     ELSE phase
    /\ snap' = IF phase = "failing" /\ ctl' = <<>>
               THEN AllTemps(paragen_stack')
               ELSE snap
    /\ UNCHANGED <<log, given>>

NextRerun ==
    \/ /\ Going /\ ctl = <<>> /\ Room(1)
       /\ phase = "failing" => steps = 0
       /\ Paragen(<<"A">>, DefaultArgs, 0)
       /\ Rerun
    \/ Going /\ phase = "rerun" /\ Return(0) /\ Rerun
    \/ \E k \in Kinds :
          Going /\ ctl # <<>> /\ Room(1) /\ Prim(k, Unset, DefaultArgs, 0) /\ Rerun
    \/ \E nm \in LocalNames :
          Going /\ ctl # <<>> /\ Room(1) /\ Blank(nm, {}, 0) /\ Rerun
    \/ \E x \in Operands :
          /\ Going /\ ctl # <<>> /\ Room(Needs(x))
          /\ x.obj # TopFrame.bpy_object
          /\ Boolean("UNION", x, DefaultArgs, 0)
          /\ Rerun
    \/ \E nm \in MaterialLocalNames :
          Going /\ ctl # <<>> /\ Material(nm, 1, 0, 0) /\ Rerun
    \/ \E nm \in LocalNames, x \in Operands :
          /\ Going /\ ctl # <<>> /\ Room(Needs(x) + 1)
          /\ Instance(nm, x, DefaultArgs, 0)
          /\ Rerun
    \/ Going /\ phase = "failing" /\ Raise(0) /\ Rerun

SpecRerun == InitRerun /\ [][NextRerun]_vars

\* ------------------------------------------------------------- properties
Helpers == {"prim", "blank", "boolean", "material", "instance"}

Returned == ret.op = "return" /\ ret.status = "ok"

\* C1: every builder call that ends, by returning or by raising, leaves
\* paragen_stack as long as it found it
C1_FrameBalance == \A b \in ret.ended : Len(paragen_stack) = b

\* C2: when a builder call has returned normally, no temporary of a frame
\* popped during the call is left in the scene
C2_TemporaryCleanup ==
    Returned => \A t \in ret.popped : ~IsAlive(World, t)

C2_Witness ==
    /\ Returned
    /\ Cardinality(ret.popped) >= 2
    /\ \E t \in ret.popped : t \notin ret.own

\* C5: when a nested builder call returns, its frame is gone and its
\* temporaries deleted, the outer frame is on top again, with the temporaries
\* it had, all of them still in the scene (stated for the calls during which
\* no rebuild step found an object of the name it was given to remove)
C5_NestingIsolation ==
    (Returned /\ ret.nested /\ ret.removed = {}) =>
        /\ Len(paragen_stack) = ret.before
        /\ TopFrame = ret.outer
        /\ \A t \in ret.own : ~IsAlive(World, t)
        /\ \A t \in Range(ret.outer.temps) : t \in LinkedObjs(World)

\* C6 as stated: when a nested builder call returns, the object it built
\* has the outer frame's active object as its parent
C6_NestedResultParented ==
    (Returned /\ ret.nested) => objects[ret.obj].parent = ret.outer.bpy_object

\* C6 amended: the object a builder call returns has no parent; it gets the
\* top frame's object as parent when the calling routine assigns it
C6_ParentedByCaller ==
    /\ Returned => objects[ret.obj].parent = NoObj
    /\ (ret.op = "set_parent" /\ ret.status = "ok") =>
           objects[ret.arg].parent = TopFrame.bpy_object

C6_Witness ==
    /\ ret.op = "set_parent" /\ ret.status = "ok"
    /\ objects[ret.arg].parent = TopFrame.bpy_object
    /\ ctl # <<>>

\* C9: a helper called while paragen_stack is empty ends in an exception
C9_MisuseFailsLoudly ==
    (ret.op \in Helpers /\ ret.before = 0) => ret.status # "ok"

C9_Witness ==
    /\ ret.op \in {"boolean", "instance"} /\ ret.before = 0
    /\ ret.status = "IndexError"
    /\ objects # <<>>

\* C10: paragen_stack is empty when a top-level builder call starts and when
\* it has returned, and not empty while a routine runs
C10_StackEmptiness ==
    /\ (ret.op = "paragen" /\ ret.status = "ok" /\ Len(ctl) = 1) => ret.before = 0
    /\ (Returned /\ ctl = <<>>) => paragen_stack = <<>>
    /\ ctl # <<>> => paragen_stack # <<>>

\* the full name of the material the last material call made
MaterialFullName == get_name_prefix(World) \o ret.nm

\* C4: after a material call made where a material of the same full name
\* existed (or not), the registry holds one material of that full name, none
\* under a suffixed variant of it, and it has the values of this call
C4_MaterialIdempotence ==
    (ret.op = "material" /\ ret.status = "ok") =>
        {m \in materials : StripSuffix(m.name) = MaterialFullName} =
            {[name |-> MaterialFullName, base_color |-> ret.base_color,
              metallic |-> ret.metallic]}

C4_Witness ==
    /\ ret.op = "material" /\ ret.status = "ok"
    /\ \E m \in ret.prior :
          m.base_color # ret.base_color /\ m.metallic # ret.metallic
    /\ Cardinality(materials) = 1

\* the instance call that has just been made on an existing object
InstanceMade ==
    ret'.op = "instance" /\ ret'.status = "ok" /\ ret'.arg # NoObj

\* the boolean call that has just been made on an existing object
TransformChanged ==
    ret'.op = "boolean" /\ ret'.status = "ok" /\ ret'.arg # NoObj

\* C7: an instance call on an existing object adds one object that shares
\* the template's mesh and carries the call's transform, and changes neither
\* the template (geometry, transform, parent, existence) nor any other object
\* (the instances made before); assigning a transform to one object (as
\* boolean does to its operand) changes no other object
C7_InstanceSharing ==
    [][/\ InstanceMade =>
            /\ Len(objects') = Len(objects) + 1
            /\ \A o \in 1..Len(objects) : objects'[o] = objects[o]
            /\ meshes' = meshes
            /\ objects'[Len(objects')].data = objects[ret'.arg].data
            /\ objects'[Len(objects')].alive
            /\ Transform([objects |-> objects'], Len(objects')) =
                   Effective(ret'.args)
       /\ TransformChanged =>
            \A o \in (1..Len(objects)) \ {ret'.arg} : objects'[o] = objects[o]
      ]_vars

C7_Witness ==
    /\ ret.op = "instance" /\ ret.status = "ok" /\ ret.arg # NoObj
    /\ \E i \in 1..(Len(objects) - 1) :
          /\ i # ret.arg
          /\ objects[i].alive /\ objects[i].linked
          /\ objects[i].data = objects[ret.arg].data
          /\ Transform(World, i) # Transform(World, Len(objects))
          /\ Transform(World, i) # Transform(World, ret.arg)
    /\ IsAlive(World, ret.arg)

\* the object the transform arguments of the last boolean call were for
Subject == IF ret.arg # NoObj THEN ret.arg ELSE Len(objects)

\* C8: the object a call of prim, boolean, instance or a builder leaves has,
\* on every axis, the per-axis argument where one was given and the
\* component of the vector argument elsewhere
C8_OverridePrecedence ==
    /\ (ret.op = "prim" /\ ret.status = "ok") =>
           Transform(World, ret.obj) = Effective(ret.args)
    /\ (ret.op = "boolean" /\ ret.status = "ok") =>
           Transform(World, Subject) = Effective(ret.args)
    /\ (ret.op = "instance" /\ ret.status = "ok") =>
           Transform(World, Len(objects)) = Effective(ret.args)
    /\ Returned => Transform(World, ret.obj) = Effective(ret.args)

\* C3: a build made twice with the same name and arguments leaves the scene
\* (objects by name, their parents, materials) that the first build left
\* (stated for the builds whose first run found no object of a name it was
\* given to remove)
C3_Idempotence ==
    (phase = "done" /\ ctl = <<>> /\ Returned /\ snap.clean) =>
        View(objects, materials) = snap.view

\* C11: when a build of A whose routine raised is followed by a build of A
\* that returns, the stack is empty, the object returned is the one object
\* named A and no temporary of the failed build is left
C11_CleanRerun ==
    phase = "done" =>
        /\ paragen_stack = <<>>
        /\ ByName(World, <<"A">>) = {ret.obj}
        /\ \A t \in snap : ~IsAlive(World, t)

\* the instance call that has just been made
Instanced == ret'.op = "instance" /\ ret'.status = "ok"

\* the name an instance call asks for: the top frame's object name, '.', name
AskedName == objects[TopFrame.bpy_object].name \o ret'.nm

\* C12 as stated: the object an instance call creates is linked, has the top
\* frame's object as parent and is named exactly prefix + name
C12_InstanceNamedExactly ==
    (ret.op = "instance" /\ ret.status = "ok") =>
        /\ objects[Len(objects)].linked
        /\ objects[Len(objects)].parent = TopFrame.bpy_object
        /\ objects[Len(objects)].name = get_name_prefix(World) \o ret.nm

\* C12 amended: an instance call creates one object (besides the primitive
\* of a str operand) that is linked and has the top frame's object as
\* parent; it is named prefix + name when no object has that name, and that
\* name with a numeric suffix when one has; no two objects share a name
C12_InstanceNamed ==
    [][Instanced =>
          /\ Len(objects') = Len(objects) + 1 + (IF ret'.arg = NoObj THEN 1 ELSE 0)
          /\ objects'[Len(objects')].alive
          /\ objects'[Len(objects')].linked
          /\ objects'[Len(objects')].parent = TopFrame.bpy_object
          /\ StripSuffix(objects'[Len(objects')].name) = AskedName
          /\ (objects'[Len(objects')].name = AskedName) <=>
                 (AskedName \notin ObjectNames(World, NoObj))
          /\ \A o1, o2 \in 1..Len(objects') :
                 (/\ o1 # o2 /\ objects'[o1].alive /\ objects'[o2].alive)
                     => objects'[o1].name # objects'[o2].name
      ]_vars

C12_Witness ==
    /\ ret.op = "instance" /\ ret.status = "ok"
    /\ IsAlive(World, ret.arg)
    /\ objects[ret.arg].name = get_name_prefix(World) \o ret.nm
    /\ objects[Len(objects)].name # objects[ret.arg].name
    /\ objects[Len(objects)].parent = TopFrame.bpy_object

\* the objects of the next state that are named n
NamedNext(n) == {o \in 1..Len(objects') : objects'[o].alive /\ objects'[o].name = n}

\* the objects created since the root of the builder call that returns
CreatedInCall == (ret'.obj + 1)..Len(objects')

\* C13: a builder call named N removes the object named N and its children
\* before it creates the root, which is then the one object named N; when
\* the call returns, its result exists and is the one object named N; and
\* when every object created during the call was registered in the call's
\* frame and that frame is the one its exit popped (a routine that only
\* unions or differences on-the-fly primitives), none of them is left
C13_RootUniqueness ==
    [][/\ (ret'.op = "paragen" /\ ret'.status = "ok") =>
             /\ \A o \in OldObjects(World, ret'.nm) : ~objects'[o].alive
             /\ ret'.obj = Len(objects) + 1
             /\ NamedNext(ret'.nm) = {ret'.obj}
       /\ (ret'.op = "return" /\ ret'.status = "ok") =>
             /\ NamedNext(ret'.nm) = {ret'.obj}
             /\ \A o \in ret'.removed : ~objects'[o].alive
             /\ (/\ Len(paragen_stack') = ret'.before
                 /\ CreatedInCall \subseteq ret'.own)
                    => \A o \in CreatedInCall : ~objects'[o].alive
      ]_vars

C13_Witness ==
    /\ Returned
    /\ ret.removed # {}
    /\ ByName(World, ret.nm) = {ret.obj}
    /\ Len(objects) > ret.obj
    /\ (ret.obj + 1)..Len(objects) \subseteq ret.own
    /\ Len(paragen_stack) = ret.before

\* the boolean call that has just been made
Baked == ret'.op = "boolean" /\ ret'.status = "ok"

\* the objects of the frames below the top one
LowerObjects ==
    {paragen_stack[i].bpy_object : i \in 1..(Len(paragen_stack) - 1)}
        \ {TopFrame.bpy_object}

\* C14: a boolean call leaves the top frame's object host-active whatever
\* was active before; the one mesh whose geometry changes is that of the top
\* frame's object, which gains the operation; the object of a lower frame
\* keeps its mesh, and is left as it was unless it is the call's operand
C14_BooleanTargetsTopFrame ==
    [][Baked =>
          /\ active' = TopFrame.bpy_object
          /\ \A d \in 1..Len(meshes) :
                 d # objects[TopFrame.bpy_object].data => meshes'[d] = meshes[d]
          /\ \A d \in (Len(meshes) + 1)..Len(meshes') : meshes'[d].geom = {}
          /\ meshes[objects[TopFrame.bpy_object].data].geom \subseteq
                 meshes'[objects[TopFrame.bpy_object].data].geom
          /\ \E g \in meshes'[objects[TopFrame.bpy_object].data].geom :
                 g.operand = IF ret'.arg = NoObj THEN Len(objects') ELSE ret'.arg
          /\ \A o \in LowerObjects :
                 /\ objects'[o].data = objects[o].data
                 /\ o # ret'.arg => objects'[o] = objects[o]
      ]_vars

C14_Witness ==
    /\ ret.op = "boolean" /\ ret.status = "ok"
    /\ ret.arg = NoObj
    /\ Len(paragen_stack) >= 2
    /\ active = TopFrame.bpy_object
    /\ \E i \in 1..(Len(paragen_stack) - 1) :
          /\ IsAlive(World, paragen_stack[i].bpy_object)
          /\ paragen_stack[i].bpy_object # TopFrame.bpy_object
          /\ meshes[objects[paragen_stack[i].bpy_object].data].geom = {}
    /\ meshes[objects[TopFrame.bpy_object].data].geom # {}

\* C15: after a boolean call on an existing object, the object's position,
\* rotation and scale are the call's effective transform whatever they were
\* before: the components the call was given, the defaults for the others
C15_BooleanOverwritesTransform ==
    (ret.op = "boolean" /\ ret.status = "ok" /\ ret.arg # NoObj) =>
        /\ Transform(World, ret.arg) = Effective(ret.args)
        /\ ret.args = DefaultArgs =>
               Transform(World, ret.arg) =
                   [location |-> Origin, rotation_euler |-> Origin, scale |-> Ones]

C15_Witness ==
    /\ ret.op = "boolean" /\ ret.status = "ok" /\ ret.arg # NoObj
    /\ ret.args = DefaultArgs
    /\ ret.was.location # Origin
    /\ ret.was.rotation_euler # Origin
    /\ ret.was.scale # Ones
    /\ Transform(World, ret.arg) # ret.was

\* a sub-context opened on a temporary of the enclosing frame has exited
SubContextExited ==
    /\ ret.op = "exit" /\ ret.status = "ok"
    /\ ret.obj \in Range(ret.outer.temps)

\* C16: when a sub-context opened on a temporary T of the enclosing frame
\* exits, the temporaries registered in its frame are deleted, its frame is
\* gone and the enclosing frame is the top one again, with T and its other
\* temporaries still registered and still in the scene; and a boolean call
\* does not delete its target
C16_SubContextScoping ==
    /\ SubContextExited =>
          /\ \A t \in ret.own : ~IsAlive(World, t)
          /\ Len(paragen_stack) = ret.before
          /\ TopFrame = ret.outer
          /\ \A t \in Range(ret.outer.temps) :
                 t \notin ret.removed =>
                    IsAlive(World, t) /\ objects[t].linked
    /\ (ret.op = "boolean" /\ ret.status = "ok") =>
          IsAlive(World, TopFrame.bpy_object)

\* the exit part of paragen_context has just run to its end
ExitRan == ret'.op \in {"return", "exit"} /\ ret'.status = "ok"

\* C17: when the exit part of paragen_context runs for object X, the frame
\* it pops is the one pushed for X (the top frame is X's and the stack is
\* left as it was when the context was entered), the temporaries of X's
\* frame are deleted and X has the transform saved on entry
C17_MatchedExit ==
    [][ExitRan =>
          /\ TopFrame.bpy_object = ret'.obj
          /\ Len(paragen_stack) = ret'.before + 1
          /\ paragen_stack' = SubSeq(paragen_stack, 1, ret'.before)
          /\ \A t \in ret'.own : ~objects'[t].alive
          /\ Transform([objects |-> objects'], ret'.obj) =
                 ctl[Len(ctl)].matrix_world
      ]_vars

\* a helper has just failed for want of a frame
MisuseFailed ==
    /\ ret'.op \in {"prim", "boolean", "instance", "material"}
    /\ paragen_stack = <<>>
    /\ ret'.status # "ok"

\* C18: a call of prim, boolean, instance or material that fails because
\* paragen_stack is empty leaves the scene as it was: no object, mesh or
\* material is new and no object has changed
C18_NoEffectOnMisuse ==
    [][MisuseFailed =>
          /\ objects' = objects
          /\ meshes' = meshes
          /\ materials' = materials
      ]_vars
====
